---------------------------- MODULE Spec2Model ----------------------------
(***************************************************************************)
(* Request-shaping core of codeb-cms:                                      *)
(*   - the sliding-window rate limiter (rate-limiter.server.ts),           *)
(*   - the view-counter flusher       (static-optimizer.server.ts),        *)
(*   - the circuit breaker            (static-optimizer.server.ts),        *)
(*   - the message batcher            (realtime publisher),                *)
(*   - the cache manager's get        (static-optimizer.server.ts callers),*)
(*   - the pipeline rate limiter      (static-optimizer.server.ts),        *)
(*   - executeWithRetry               (connection-pool.server.ts),         *)
(*   - the point balance              (connection-pool.server.ts, routes), *)
(*   - the settlement of an event     (admin routes).                      *)
(* Each component has its own specification over the shared variables;     *)
(* a component's actions leave the other components' variables unchanged.  *)
(***************************************************************************)
EXTENDS Integers, Sequences, FiniteSets, TLC

(***************************************************************************)
(* Bounds of the model                                                     *)
(***************************************************************************)
\* number of clock steps the rate-limiter clock may take
MaxTicks == 2
\* how many rate-limit checks of one behaviour may reach the ZADD branch
MaxChecks == 6
\* how many incrementViewCount calls one behaviour makes
MaxIncs == 3
\* how many flushViewCounters invocations one behaviour reads keys for
MaxFlushes == 2
\* number of clock steps the circuit breaker's clock may take
MaxCbTicks == 4
\* how many queueMessage calls one behaviour makes
MaxMsgs == 4
\* BATCH_CONFIG.maxSize of the modelled deployment (the source configures
\* 100; the queue of the model has to stay small)
MaxSize == 4

(***************************************************************************)
(* State                                                                   *)
(***************************************************************************)
\* -- rate limiter
VARIABLES
  rlType,     \* the limit class of this run (config)
  now,        \* Date.now() of the rate limiter's clock, in ms
  zset,       \* identifier -> sorted set under key prefix:identifier,
              \*   a set of members <<score, nonce>> ("now:random", score now)
  zttl,       \* identifier -> instant at which the key expires, or Undefined
  rlCall,     \* proc -> the checkRateLimit call awaiting redis.eval
  rlLast,     \* the RateLimitResult returned last, and to whom
  allowedAt,  \* history: identifier -> timestamp -> checks for which the
              \*   script took the ZADD branch (all of them returned allowed)
  delayed,    \* history: some script ran after the clock had moved on
              \*   from its call's Date.now()
  rateLimitBlocks, \* metrics.rateLimitBlocks, the counter the metrics
                   \*   endpoint reports for the rate limiter
  rlResp      \* what rateLimit(request, type, userId) returned for the
              \*   check answered last: a Response or NullResponse

rlVars == <<rlType, now, zset, zttl, rlCall, rlLast, allowedAt, delayed,
            rateLimitBlocks, rlResp>>

\* -- view counters
VARIABLES
  redisViews,  \* post -> value of the key views:counter:post, 0 when absent
  viewTtl,     \* post -> the key carries an expiry
  dbViews,     \* post -> Post.views in the relational store, as a delta
  flush,       \* flusher -> the invocation's position and locals
  flLast,      \* what the flush that ended last returned or threw
  incs,        \* history: post -> number of incrementViewCount calls
  nflush,      \* history: number of flushes that found keys
  raced,       \* history: an increment ran while a flush was in progress
  overlapped,  \* history: two flushes were in progress at once
  delFailed    \* history: redis.del raised after a commit

cfVars == <<redisViews, viewTtl, dbViews, flush, flLast, incs, nflush, raced,
            overlapped, delFailed>>

\* -- circuit breaker
VARIABLES
  cbNow,          \* Date.now() of the circuit breaker's clock, in ms
  heap,           \* object id -> a CircuitState object {failures, lastFailure, state}
  circuitStates,  \* operation name -> id of the object the Map holds, or NoObj
  cbCall,         \* caller -> the withCircuitBreaker call awaiting fn()
  cbLast,         \* how the call that ended last ended
  lastFailAt,     \* history: instant at which fn() failed last, or Undefined
  consec,         \* history: failures of fn() since its last success,
                  \*   counted up to the threshold
  cbConcurrent    \* history: two calls awaited fn() at the same time

cbVars == <<cbNow, heap, circuitStates, cbCall, cbLast, lastFailAt, consec,
            cbConcurrent>>

\* -- message batcher
VARIABLES
  messageQueue,  \* the array of queued messages [channel, data], oldest first
  batchTimer,    \* ms until the setTimeout of queueMessage fires, or
                 \*   Undefined when batchTimer is null
  flushIn,       \* ms until the setInterval of line 115 fires next
  mqFlights,     \* number of flushes awaiting Promise.all(publishPromises)
  mqLast,        \* the flush that took messages last: what it took, what it
                 \*   published, and what triggered it
  mqEnd,         \* how the flush that ended last ended
  nextId,        \* history: number of queueMessage calls made
  pubCount,      \* history: message -> number of publishes that carried it
  oldestAge      \* history: ms since the oldest queued message was pushed,
                 \*   counted up to maxWaitMs

mqVars == <<messageQueue, batchTimer, flushIn, mqFlights, mqLast, mqEnd,
            nextId, pubCount, oldestAge>>

\* -- cache manager (stampede protection of get)
VARIABLES
  cacheStore,    \* cache key -> the value stored under it, or NoValue
  inFlight,      \* cache key -> whether the per-key in-flight marker is set
  cacheCall,     \* getter -> the get(key, fn) it is inside and the
                 \*   computation it awaits
  cacheGot,      \* getter -> what its last get returned
  fnRunning,     \* history: cache key -> computeFn calls not yet settled
  fnCalls        \* history: cache key -> computeFn calls made so far

caVars == <<cacheStore, inFlight, cacheCall, cacheGot, fnRunning, fnCalls>>

\* -- rate limiter, pipeline variant (static-optimizer.server.ts)
VARIABLES
  plNow,      \* Date.now() of this limiter's clock, in ms
  plZset,     \* identifier -> sorted set under ratelimit:type:identifier,
              \*   members <<score, n>> for "now:Math.random()"
  plTtl,      \* identifier -> instant at which the key expires, or Undefined
  plCall,     \* proc -> the checkRateLimit call whose pipeline is executing
  plLast,     \* the result returned last
  plCalls,    \* history: number of checkRateLimit calls made
  plRejected  \* history: the members added by calls answered allowed: false

plVars == <<plNow, plZset, plTtl, plCall, plLast, plCalls, plRejected>>

\* -- executeWithRetry (connection-pool.server.ts)
VARIABLES
  erCall,     \* the executeWithRetry call: where it is, its `retries`, its
              \*   `attempt` and its `lastError`
  erEnd,      \* how the call ended: what it returned or threw
  erInvoked,  \* history: number of fn() calls the call has made
  erErrors,   \* history: the errors fn() rejected with, in order
  erSleeps    \* history: the delays the call has slept, in order

erVars == <<erCall, erEnd, erInvoked, erErrors, erSleeps>>

\* -- point balance (deductPoints, event participation)
VARIABLES
  ptBalance,  \* user_points.balance of the user
  ptCall,     \* proc -> the deduction it is inside: which operation, the
              \*   amount, and whether its balance test has passed
  ptLast,     \* how the operation that ended last ended
  ptOps       \* history: number of deductions started

ptVars == <<ptBalance, ptCall, ptLast, ptOps>>

\* -- event settlement (admin routes)
VARIABLES
  evStatus,    \* participation_events.status of the event
  evAnswer,    \* its correctAnswer, or "none"
  evResult,    \* admin -> whether the result page (the settlement form) is
               \*   open in the admin's browser
  evDetail,    \* admin -> the status the admin's event page was rendered
               \*   with, or "none" when the page is not open
  evBalance,   \* user -> user_points.balance
  evCredited,  \* history: participation -> times its reward was credited
  evSettles    \* history: number of settlement actions run

evVars == <<evStatus, evAnswer, evResult, evDetail, evBalance, evCredited,
            evSettles>>

vars ==
  <<rlVars, cfVars, cbVars, mqVars, caVars, plVars, erVars, ptVars, evVars>>

(***************************************************************************)
(* 1. Sliding-window rate limiter                                          *)
(***************************************************************************)
\* RATE_LIMITS.participation
ParticipationWindowMs == 1000
ParticipationMaxRequests == 5
\* RATE_LIMITS.register
RegisterWindowMs == 3600000
RegisterMaxRequests == 5

\* the limit classes the model draws from (the two classes of five requests)
LimitTypes == {"participation", "register"}

RATE_LIMITS ==
  [t \in LimitTypes |->
     IF t = "participation"
       THEN [windowMs |-> ParticipationWindowMs,
             maxRequests |-> ParticipationMaxRequests]
       ELSE [windowMs |-> RegisterWindowMs,
             maxRequests |-> RegisterMaxRequests]]

Identifiers == {"u1"}
Procs == {"r1", "r2"}
\* the values math.random() may return
Nonces == 1..MaxChecks

\* Math.ceil(a / b) for positive b
CeilDiv(a, b) == (a + b - 1) \div b

\* Math.max(0, x)
Max0(x) == IF x > 0 THEN x ELSE 0

Undefined == -1


WindowMs == RATE_LIMITS[rlType].windowMs
MaxRequests == RATE_LIMITS[rlType].maxRequests

\* the clock advances in half windows
ClockStep == WindowMs \div 2
Times == {k * (RegisterWindowMs \div 2) : k \in 0..(MaxTicks + 1)}
           \cup {k * (ParticipationWindowMs \div 2) : k \in 0..(MaxTicks + 1)}

NoCall == [id |-> "none", now |-> Undefined]
NoResult == [id |-> "none", at |-> Undefined, allowed |-> TRUE,
             remaining |-> 0, total |-> 0, resetAt |-> 0,
             retryAfter |-> Undefined, failOpen |-> FALSE, seen |-> 0]

\* a purge that keeps the entries whose score is windowStart itself
ZRemRangeByScoreExclusive(set, windowStart) ==
  {m \in set : m[1] >= windowStart}

\* ZREMRANGEBYSCORE key -inf windowStart: scores <= windowStart go
ZRemRangeByScore(set, windowStart) == {m \in set : m[1] > windowStart}

\* ZADD key score member, member = score .. ':' .. math.random()
ZAdd(set, score, nonce) == set \cup {<<score, nonce>>}

\* The Lua script of checkRateLimit, run atomically by the store.
\* Returns the new set and the reply {allowed, count}.
LuaScript(set, windowStart, nowArg, maxReq, nonce) ==
  LET purged == ZRemRangeByScore(set, windowStart)
      count == Cardinality(purged)
  IN IF count < maxReq
       THEN [set |-> ZAdd(purged, nowArg, nonce), wrote |-> TRUE,
             reply |-> <<1, count + 1>>]
       ELSE [set |-> purged, wrote |-> FALSE, reply |-> <<0, count>>]

\* the RateLimitResult built from the script's reply
ResultOf(reply, callNow) ==
  [allowed |-> (reply[1] = 1),
   remaining |-> Max0(MaxRequests - reply[2]),
   total |-> MaxRequests,
   resetAt |-> callNow + WindowMs,
   retryAfter |-> IF reply[1] # 0 THEN Undefined ELSE CeilDiv(WindowMs, 1000)]

\* the result of the catch branch (fail open)
FailOpenResult(callNow) ==
  [allowed |-> TRUE, remaining |-> MaxRequests, total |-> MaxRequests,
   resetAt |-> callNow + WindowMs, retryAfter |-> Undefined]

\* `return null` of rateLimit
NoHeaders == [n \in {} |-> 0]
NullResponse == [status |-> 0, headers |-> NoHeaders, body |-> "null"]

\* headers.set(name, value)
HeadersSet(headers, name, value) ==
  [n \in DOMAIN headers \cup {name} |->
     IF n = name THEN value ELSE headers[n]]

\* a JavaScript number used as a condition: undefined and 0 are falsy
Truthy(n) == n # Undefined /\ n # 0

\* setRateLimitHeaders that sets Retry-After for allowed results only
SetRateLimitHeadersWhenAllowed(headers, result) ==
  LET h1 == HeadersSet(headers, "X-RateLimit-Limit", result.total)
      h2 == HeadersSet(h1, "X-RateLimit-Remaining", result.remaining)
      h3 == HeadersSet(h2, "X-RateLimit-Reset", CeilDiv(result.resetAt, 1000))
  IN IF result.allowed /\ Truthy(result.retryAfter)
       THEN HeadersSet(h3, "Retry-After", result.retryAfter)
       ELSE h3

\* setRateLimitHeaders(headers, result)
SetRateLimitHeaders(headers, result) ==
  LET h1 == HeadersSet(headers, "X-RateLimit-Limit", result.total)
      h2 == HeadersSet(h1, "X-RateLimit-Remaining", result.remaining)
      h3 == HeadersSet(h2, "X-RateLimit-Reset", CeilDiv(result.resetAt, 1000))
  IN IF ~result.allowed /\ Truthy(result.retryAfter)
       THEN HeadersSet(h3, "Retry-After", result.retryAfter)
       ELSE h3

\* createRateLimitResponse(result)
CreateRateLimitResponse(result) ==
  [status |-> 429,
   headers |-> SetRateLimitHeaders(
                 HeadersSet(NoHeaders, "Content-Type", "application/json"),
                 result),
   body |-> [error |-> "Too Many Requests",
             message |-> "request limit exceeded",
             retryAfter |-> result.retryAfter]]

\* rateLimit(request, type, userId) once checkRateLimit has answered
RateLimit(result) ==
  IF ~result.allowed THEN CreateRateLimitResponse(result) ELSE NullResponse

\* allowed checks of identifier i with a timestamp in (t - windowMs, t]
AllowedInWindow(i, t) ==
  LET RECURSIVE Sum(_)
      Sum(S) == IF S = {} THEN 0
                ELSE LET x == CHOOSE y \in S : TRUE
                     IN allowedAt[i][x] + Sum(S \ {x})
  IN Sum({s \in Times : s > t - WindowMs /\ s <= t})

\* all checks that reached the ZADD branch so far
TotalAllowed ==
  LET RECURSIVE Sum(_, _)
      Sum(i, S) == IF S = {} THEN 0
                   ELSE LET x == CHOOSE y \in S : TRUE
                        IN allowedAt[i][x] + Sum(i, S \ {x})
      RECURSIVE All(_)
      All(I) == IF I = {} THEN 0
                ELSE LET i == CHOOSE j \in I : TRUE
                     IN Sum(i, Times) + All(I \ {i})
  IN All(Identifiers)

\* math.random() values are interchangeable: a draw either repeats a value
\* already used at this timestamp or is the first unused one
Draws(set, score) ==
  LET used == {m[2] : m \in {x \in set : x[1] = score}}
  IN used \cup {CHOOSE n \in Nonces : n \notin used /\
                   \A k \in Nonces : k < n => k \in used}

RlInit ==
  /\ rlType \in LimitTypes
  /\ now = 0
  /\ zset = [i \in Identifiers |-> {}]
  /\ zttl = [i \in Identifiers |-> Undefined]
  /\ rlCall = [p \in Procs |-> NoCall]
  /\ rlLast = NoResult
  /\ allowedAt = [i \in Identifiers |-> [t \in Times |-> 0]]
  /\ delayed = FALSE
  /\ rateLimitBlocks = 0
  /\ rlResp = NullResponse

\* time passes
RlTick ==
  /\ now < MaxTicks * ClockStep
  /\ now' = now + ClockStep
  /\ UNCHANGED <<rateLimitBlocks, rlResp, rlType,
                 zset, zttl, rlCall, rlLast, allowedAt, delayed>>
  /\ UNCHANGED <<cfVars, cbVars, mqVars, caVars, plVars, erVars, ptVars, evVars>>

\* the store drops a key whose PEXPIRE time has come
RlKeyExpire(i) ==
  /\ zttl[i] # Undefined
  /\ now >= zttl[i]
  /\ zset' = [zset EXCEPT ![i] = {}]
  /\ zttl' = [zttl EXCEPT ![i] = Undefined]
  /\ UNCHANGED <<rateLimitBlocks, rlResp, rlType,
                 now, rlCall, rlLast, allowedAt, delayed>>
  /\ UNCHANGED <<cfVars, cbVars, mqVars, caVars, plVars, erVars, ptVars, evVars>>

\* checkRateLimit up to its await: key, now and windowStart are fixed
RlStart(p, i) ==
  /\ rlCall[p] = NoCall
  /\ TotalAllowed + Cardinality({q \in Procs : rlCall[q] # NoCall}) < MaxChecks
  /\ rlCall' = [rlCall EXCEPT ![p] = [id |-> i, now |-> now]]
  /\ UNCHANGED <<rateLimitBlocks, rlResp, rlType,
                 now, zset, zttl, rlLast, allowedAt, delayed>>
  /\ UNCHANGED <<cfVars, cbVars, mqVars, caVars, plVars, erVars, ptVars, evVars>>

\* redis.eval runs the script and checkRateLimit returns its result
RlEval(p, nonce) ==
  /\ rlCall[p] # NoCall
  /\ nonce \in Draws(zset[rlCall[p].id], rlCall[p].now)
  /\ LET c == rlCall[p]
         r == LuaScript(zset[c.id], c.now - WindowMs, c.now, MaxRequests,
                        nonce)
     IN /\ zset' = [zset EXCEPT ![c.id] = r.set]
        /\ zttl' = IF r.wrote THEN [zttl EXCEPT ![c.id] = now + WindowMs]
                   ELSE zttl
        /\ rlLast' = ResultOf(r.reply, c.now)
                       @@ [id |-> c.id, at |-> c.now, failOpen |-> FALSE,
                           seen |-> AllowedInWindow(c.id, c.now)]
        /\ allowedAt' = IF r.reply[1] = 1
                          THEN [allowedAt EXCEPT ![c.id][c.now] = @ + 1]
                          ELSE allowedAt
        /\ delayed' = (delayed \/ c.now # now)
  /\ rlCall' = [rlCall EXCEPT ![p] = NoCall]
  /\ rlResp' = RateLimit(rlLast')
  /\ UNCHANGED <<rateLimitBlocks, rlType, now>>
  /\ UNCHANGED <<cfVars, cbVars, mqVars, caVars, plVars, erVars, ptVars, evVars>>

\* redis.eval raises: the catch branch answers allowed (fail open).  The
\* script either never ran or ran and its reply was lost.
RlEvalFails(p, ran, nonce) ==
  /\ rlCall[p] # NoCall
  /\ nonce \in Draws(zset[rlCall[p].id], rlCall[p].now)
  /\ LET c == rlCall[p]
         r == LuaScript(zset[c.id], c.now - WindowMs, c.now, MaxRequests,
                        nonce)
     IN /\ zset' = IF ran THEN [zset EXCEPT ![c.id] = r.set] ELSE zset
        /\ zttl' = IF ran /\ r.wrote
                     THEN [zttl EXCEPT ![c.id] = now + WindowMs]
                     ELSE zttl
        /\ rlLast' = FailOpenResult(c.now)
                       @@ [id |-> c.id, at |-> c.now, failOpen |-> TRUE,
                           seen |-> AllowedInWindow(c.id, c.now)]
        /\ allowedAt' = IF ran /\ r.wrote
                          THEN [allowedAt EXCEPT ![c.id][c.now] = @ + 1]
                          ELSE allowedAt
        /\ delayed' = (delayed \/ (ran /\ c.now # now))
  /\ rlCall' = [rlCall EXCEPT ![p] = NoCall]
  /\ rlResp' = RateLimit(rlLast')
  /\ UNCHANGED <<rateLimitBlocks, rlType, now>>
  /\ UNCHANGED <<cfVars, cbVars, mqVars, caVars, plVars, erVars, ptVars, evVars>>

RlNext ==
  \/ RlTick
  \/ \E i \in Identifiers : RlKeyExpire(i)
  \/ \E p \in Procs, i \in Identifiers : RlStart(p, i)
  \/ \E p \in Procs, n \in Nonces : RlEval(p, n)
  \/ \E p \in Procs, ran \in BOOLEAN, n \in Nonces : RlEvalFails(p, ran, n)


(***************************************************************************)
(* 2. View counters: incrementViewCount and flushViewCounters              *)
(***************************************************************************)
Posts == {"p1", "p2"}
\* a scheduler tick whose flush is still running when the next tick fires,
\* or a direct call of the exported function, is a second invocation
Flushers == {"f1", "f2"}


ZeroViews == [p \in Posts |-> 0]
IdleFlush == [pc |-> "idle", keys |-> {}, results |-> ZeroViews,
              dbBefore |-> ZeroViews]
NoFlush == [by |-> "none", updated |-> 0, threw |-> "none",
            read |-> ZeroViews, delta |-> ZeroViews]

Active == {f \in Flushers : flush[f].pc # "idle"}

\* a filter that is off by one: a counter holding 1 is not applied
UpdatesSkipOne(keys, results) == {p \in keys : results[p] > 1}

\* the updates array: the keys whose parsed value is positive
Updates(keys, results) == {p \in keys : results[p] > 0}

TotalIncs ==
  LET RECURSIVE Sum(_)
      Sum(S) == IF S = {} THEN 0
                ELSE LET x == CHOOSE y \in S : TRUE IN incs[x] + Sum(S \ {x})
  IN Sum(Posts)

CfInit ==
  /\ redisViews = ZeroViews
  /\ viewTtl = [p \in Posts |-> FALSE]
  /\ dbViews = ZeroViews
  /\ flush = [f \in Flushers |-> IdleFlush]
  /\ flLast = NoFlush
  /\ incs = ZeroViews
  /\ nflush = 0
  /\ raced = FALSE
  /\ overlapped = FALSE
  /\ delFailed = FALSE

\* incrementViewCount(postId): INCR, then EXPIRE when the count became 1
\* (expireOk = FALSE: the EXPIRE call raises and the key keeps no expiry)
IncrementViewCount(p, expireOk) ==
  /\ TotalIncs < MaxIncs
  /\ redisViews' = [redisViews EXCEPT ![p] = @ + 1]
  /\ viewTtl' = IF redisViews[p] + 1 = 1
                  THEN [viewTtl EXCEPT ![p] = expireOk]
                  ELSE viewTtl
  /\ incs' = [incs EXCEPT ![p] = @ + 1]
  /\ raced' = (raced \/ Active # {})
  /\ UNCHANGED <<dbViews, flush, flLast, nflush, overlapped, delFailed>>
  /\ UNCHANGED <<rlVars, cbVars, mqVars, caVars, plVars, erVars, ptVars, evVars>>

\* flushViewCounters up to `await redis.keys(pattern)`; no key: return 0
FlushKeys(f) ==
  /\ flush[f].pc = "idle"
  /\ LET keys == {p \in Posts : redisViews[p] > 0}
     IN IF keys = {}
          THEN /\ flLast' = [NoFlush EXCEPT !.by = f]
               /\ UNCHANGED <<flush, nflush, overlapped>>
          ELSE /\ nflush < MaxFlushes
               /\ nflush' = nflush + 1
               /\ flush' = [flush EXCEPT ![f] =
                              [pc |-> "get", keys |-> keys,
                               results |-> ZeroViews, dbBefore |-> dbViews]]
               /\ overlapped' = (overlapped \/ Active # {})
               /\ UNCHANGED flLast
  /\ UNCHANGED <<redisViews, viewTtl, dbViews, incs, raced, delFailed>>
  /\ UNCHANGED <<rlVars, cbVars, mqVars, caVars, plVars, erVars, ptVars, evVars>>

\* `await pipeline.exec()`: the GET of every key; a key deleted meanwhile
\* reads null and parses to 0.  No positive value: return 0.
FlushGet(f) ==
  /\ flush[f].pc = "get"
  /\ LET results == [p \in Posts |->
                       IF p \in flush[f].keys THEN redisViews[p] ELSE 0]
     IN IF Updates(flush[f].keys, results) = {}
          THEN /\ flush' = [flush EXCEPT ![f] = IdleFlush]
               /\ flLast' = [NoFlush EXCEPT !.by = f]
          ELSE /\ flush' = [flush EXCEPT ![f].pc = "txn",
                                         ![f].results = results]
               /\ UNCHANGED flLast
  /\ UNCHANGED <<redisViews, viewTtl, dbViews, incs, nflush, raced,
                 overlapped, delFailed>>
  /\ UNCHANGED <<rlVars, cbVars, mqVars, caVars, plVars, erVars, ptVars, evVars>>

\* updates issued one by one instead of in a transaction: the one that
\* fails leaves those before it applied
FlushTransactionPartial(f, ok) ==
  /\ flush[f].pc = "txn"
  /\ LET ups == Updates(flush[f].keys, flush[f].results)
         done == IF ok THEN ups ELSE {CHOOSE p \in ups : TRUE}
     IN dbViews' = [p \in Posts |->
                      IF p \in done THEN dbViews[p] + flush[f].results[p]
                      ELSE dbViews[p]]
  /\ IF ok
       THEN /\ flush' = [flush EXCEPT ![f].pc = "del"]
            /\ UNCHANGED flLast
       ELSE /\ flush' = [flush EXCEPT ![f] = IdleFlush]
            /\ flLast' = [NoFlush EXCEPT !.by = f, !.threw = "txn",
                                         !.read = flush[f].results]
  /\ UNCHANGED <<redisViews, viewTtl, incs, nflush, raced, overlapped,
                 delFailed>>
  /\ UNCHANGED <<rlVars, cbVars, mqVars, caVars, plVars, erVars, ptVars, evVars>>

\* `await db.$transaction([...update views increment...])`: every update or,
\* when the transaction fails, none, and the flush throws
FlushTransaction(f, ok) ==
  /\ flush[f].pc = "txn"
  /\ IF ok
       THEN /\ dbViews' = [p \in Posts |->
                             IF p \in Updates(flush[f].keys, flush[f].results)
                               THEN dbViews[p] + flush[f].results[p]
                               ELSE dbViews[p]]
            /\ flush' = [flush EXCEPT ![f].pc = "del"]
            /\ UNCHANGED flLast
       ELSE /\ flush' = [flush EXCEPT ![f] = IdleFlush]
            /\ flLast' = [NoFlush EXCEPT !.by = f, !.threw = "txn",
                                         !.read = flush[f].results]
            /\ UNCHANGED dbViews
  /\ UNCHANGED <<redisViews, viewTtl, incs, nflush, raced, overlapped,
                 delFailed>>
  /\ UNCHANGED <<rlVars, cbVars, mqVars, caVars, plVars, erVars, ptVars, evVars>>

\* `await redis.del(...keys)`, then return updates.length; when DEL raises
\* the flush throws and the keys stay
FlushDel(f, ok) ==
  /\ flush[f].pc = "del"
  /\ IF ok
       THEN /\ redisViews' = [p \in Posts |->
                                IF p \in flush[f].keys THEN 0
                                ELSE redisViews[p]]
            /\ viewTtl' = [p \in Posts |->
                             IF p \in flush[f].keys THEN FALSE ELSE viewTtl[p]]
            /\ flLast' = [by |-> f,
                          updated |-> Cardinality(Updates(flush[f].keys,
                                                          flush[f].results)),
                          threw |-> "none",
                          read |-> flush[f].results,
                          delta |-> [p \in Posts |->
                                       dbViews[p] - flush[f].dbBefore[p]]]
            /\ UNCHANGED delFailed
       ELSE /\ flLast' = [NoFlush EXCEPT !.by = f, !.threw = "del",
                                         !.read = flush[f].results]
            /\ delFailed' = TRUE
            /\ UNCHANGED <<redisViews, viewTtl>>
  /\ flush' = [flush EXCEPT ![f] = IdleFlush]
  /\ UNCHANGED <<dbViews, incs, nflush, raced, overlapped>>
  /\ UNCHANGED <<rlVars, cbVars, mqVars, caVars, plVars, erVars, ptVars, evVars>>

CfNext ==
  \/ \E p \in Posts, expireOk \in BOOLEAN : IncrementViewCount(p, expireOk)
  \/ \E f \in Flushers : FlushKeys(f)
  \/ \E f \in Flushers : FlushGet(f)
  \/ \E f \in Flushers, ok \in BOOLEAN : FlushTransaction(f, ok)
  \/ \E f \in Flushers, ok \in BOOLEAN : FlushDel(f, ok)


(***************************************************************************)
(* 3. Circuit breaker: withCircuitBreaker                                  *)
(***************************************************************************)
CIRCUIT_THRESHOLD == 5
CIRCUIT_TIMEOUT == 30000

Names == {"db"}
Callers == {"a", "b"}
\* the CircuitState objects alive at once: the Map's and one per caller
ObjIds == 1..(Cardinality(Callers) + 1)
NoObj == 0

\* the circuit breaker's clock advances in half timeouts
CbStep == CIRCUIT_TIMEOUT \div 2

\* the literal { failures: 0, lastFailure: 0, state: 'closed' }
ClosedState == [failures |-> 0, lastFailure |-> 0, state |-> "closed"]

IdleCall == [pc |-> "idle", name |-> "none", ref |-> NoObj, now |-> Undefined,
             fallback |-> FALSE, trial |-> FALSE, openEntry |-> FALSE,
             halfOpenEntry |-> FALSE]
NoOutcome == [name |-> "none", outcome |-> "none", errName |-> "none",
              openEntry |-> FALSE]

InFn == {c \in Callers : cbCall[c].pc = "fn"}

\* the objects reachable from the Map or from a call's local `state`
Referenced(calls, map) ==
  ({map[n] : n \in Names} \cup
   {calls[c].ref : c \in {d \in Callers : calls[d].pc = "fn"}}) \ {NoObj}

\* a new object: the first id nothing refers to
Alloc(calls, map) ==
  CHOOSE o \in ObjIds :
    /\ o \notin Referenced(calls, map)
    /\ \A k \in ObjIds : k < o => k \in Referenced(calls, map)

\* unreachable objects are garbage
Collect(h, calls, map) ==
  [o \in ObjIds |-> IF o \in Referenced(calls, map) THEN h[o] ELSE ClosedState]

\* the state the Map holds for name n (the default when it holds none)
StateOf(h, map, n) == IF map[n] = NoObj THEN ClosedState ELSE h[map[n]]

\* the guard of line 887
TimeoutElapsed(nowMs, lastFailure) == nowMs - lastFailure > CIRCUIT_TIMEOUT

CbInit ==
  /\ cbNow = 0
  /\ heap = [o \in ObjIds |-> ClosedState]
  /\ circuitStates = [n \in Names |-> NoObj]
  /\ cbCall = [c \in Callers |-> IdleCall]
  /\ cbLast = NoOutcome
  /\ lastFailAt = Undefined
  /\ consec = 0
  /\ cbConcurrent = FALSE

\* time passes
CbTick ==
  /\ cbNow < MaxCbTicks * CbStep
  /\ cbNow' = cbNow + CbStep
  /\ UNCHANGED <<heap, circuitStates, cbCall, cbLast, lastFailAt, consec,
                 cbConcurrent>>
  /\ UNCHANGED <<rlVars, cfVars, mqVars, caVars, plVars, erVars, ptVars, evVars>>

\* withCircuitBreaker(name, fn, fallback) up to `await fn()`: an open
\* circuit whose timeout has not elapsed answers at once, any other state
\* calls fn (an open one after turning half-open)
CbEnter(c, n, fb) ==
  /\ cbCall[c].pc = "idle"
  /\ LET has == circuitStates[n] # NoObj
         ref == IF has THEN circuitStates[n] ELSE Alloc(cbCall, circuitStates)
         st == IF has THEN heap[ref] ELSE ClosedState
         open == st.state = "open"
         reallyOpen == open /\ lastFailAt # Undefined
                            /\ cbNow - lastFailAt <= CIRCUIT_TIMEOUT
     IN IF open /\ ~TimeoutElapsed(cbNow, st.lastFailure)
          THEN /\ cbLast' = [name |-> n,
                             outcome |-> IF fb THEN "fallback" ELSE "fastfail",
                             errName |-> IF fb THEN "none" ELSE n,
                             openEntry |-> reallyOpen]
               /\ UNCHANGED <<heap, circuitStates, cbCall, cbConcurrent>>
          ELSE /\ heap' = [heap EXCEPT ![ref] =
                             IF open THEN [st EXCEPT !.state = "half-open"]
                             ELSE st]
               /\ circuitStates' = IF open
                                     THEN [circuitStates EXCEPT ![n] = ref]
                                     ELSE circuitStates
               /\ cbCall' = [cbCall EXCEPT ![c] =
                               [pc |-> "fn", name |-> n, ref |-> ref,
                                now |-> cbNow, fallback |-> fb,
                                trial |-> open, openEntry |-> reallyOpen,
                                halfOpenEntry |-> (st.state = "half-open")]]
               /\ cbConcurrent' = (cbConcurrent \/ InFn # {})
               /\ UNCHANGED cbLast
  /\ UNCHANGED <<cbNow, lastFailAt, consec>>
  /\ UNCHANGED <<rlVars, cfVars, mqVars, caVars, plVars, erVars, ptVars, evVars>>

\* fn() resolves: a half-open state is replaced by a new closed one
CbFnOk(c) ==
  /\ cbCall[c].pc = "fn"
  /\ LET call == cbCall[c]
         calls == [cbCall EXCEPT ![c] = IdleCall]
         reset == heap[call.ref].state = "half-open"
         others == [circuitStates EXCEPT ![call.name] = NoObj]
         new == Alloc(calls, others)
         map == IF reset THEN [circuitStates EXCEPT ![call.name] = new]
                ELSE circuitStates
         h == IF reset THEN [heap EXCEPT ![new] = ClosedState] ELSE heap
     IN /\ cbCall' = calls
        /\ circuitStates' = map
        /\ heap' = Collect(h, calls, map)
        /\ cbLast' = [name |-> call.name, outcome |-> "ok",
                      errName |-> "none", openEntry |-> call.openEntry]
  /\ consec' = 0
  /\ UNCHANGED <<cbNow, lastFailAt, cbConcurrent>>
  /\ UNCHANGED <<rlVars, cfVars, mqVars, caVars, plVars, erVars, ptVars, evVars>>

\* fn() rejects: count the failure on the call's state object, stamp it
\* with the call's `now`, open at the threshold, store the object
CbFnFail(c) ==
  /\ cbCall[c].pc = "fn"
  /\ LET call == cbCall[c]
         st == heap[call.ref]
         failures == st.failures + 1
         st2 == [failures |-> failures, lastFailure |-> call.now,
                 state |-> IF failures >= CIRCUIT_THRESHOLD THEN "open"
                           ELSE st.state]
         calls == [cbCall EXCEPT ![c] = IdleCall]
         map == [circuitStates EXCEPT ![call.name] = call.ref]
         h == [heap EXCEPT ![call.ref] = st2]
     IN /\ cbCall' = calls
        /\ circuitStates' = map
        /\ heap' = Collect(h, calls, map)
        /\ cbLast' = [name |-> call.name,
                      outcome |-> IF call.fallback THEN "fallback-error"
                                  ELSE "error",
                      errName |-> "none", openEntry |-> call.openEntry]
  /\ lastFailAt' = cbNow
  /\ consec' = IF consec < CIRCUIT_THRESHOLD THEN consec + 1 ELSE consec
  /\ UNCHANGED <<cbNow, cbConcurrent>>
  /\ UNCHANGED <<rlVars, cfVars, mqVars, caVars, plVars, erVars, ptVars, evVars>>

CbNext ==
  \/ CbTick
  \/ \E c \in Callers, n \in Names, fb \in BOOLEAN : CbEnter(c, n, fb)
  \/ \E c \in Callers : CbFnOk(c)
  \/ \E c \in Callers : CbFnFail(c)

(***************************************************************************)
(* 4. Message batcher: queueMessage and flushMessageQueue                  *)
(***************************************************************************)
MaxWaitMs == 50
FlushIntervalMs == 100

BATCH_CONFIG == [maxSize |-> MaxSize, maxWaitMs |-> MaxWaitMs,
                 flushIntervalMs |-> FlushIntervalMs]

Channels == {"A", "B"}
MsgIds == 1..MaxMsgs

\* the batcher's clock advances by the shorter of its two delays
MqStep == MaxWaitMs

\* a delay after one clock step; a timer that is due stays due until the
\* event loop runs it
Elapse(left) == IF left > MqStep THEN left - MqStep ELSE 0

\* the payload of the n-th queueMessage call: an object of the caller
Payload(n) == [id |-> n]

NoFlushYet == [trigger |-> "none", messages |-> <<>>, publishes |-> <<>>]
NoEnd == [ended |-> FALSE, ok |-> TRUE, threw |-> FALSE]

\* a grouping that puts each payload in front of its channel's array
RECURSIVE ChannelGroupsUnshift(_, _, _)
ChannelGroupsUnshift(messages, i, groups) ==
  IF i > Len(messages) THEN groups
  ELSE LET msg == messages[i]
           at == {k \in 1..Len(groups) : groups[k].channel = msg.channel}
       IN IF at = {}
            THEN ChannelGroupsUnshift(messages, i + 1,
                   Append(groups, [channel |-> msg.channel,
                                   dataArray |-> <<msg.data>>]))
            ELSE LET k == CHOOSE j \in at : TRUE
                 IN ChannelGroupsUnshift(messages, i + 1,
                      [groups EXCEPT ![k].dataArray = <<msg.data>> \o @])

\* lines 79-84: the Map channel -> data array, in insertion order, after
\* the messages from position i on have been added
RECURSIVE ChannelGroups(_, _, _)
ChannelGroups(messages, i, groups) ==
  IF i > Len(messages) THEN groups
  ELSE LET msg == messages[i]
           at == {k \in 1..Len(groups) : groups[k].channel = msg.channel}
       IN IF at = {}
            THEN ChannelGroups(messages, i + 1,
                   Append(groups, [channel |-> msg.channel,
                                   dataArray |-> <<msg.data>>]))
            ELSE LET k == CHOOSE j \in at : TRUE
                 IN ChannelGroups(messages, i + 1,
                      [groups EXCEPT ![k].dataArray = Append(@, msg.data)])

\* a publish that wraps a lone message in a batch too
PublishOfAlwaysBatch(group) ==
  [channel |-> group.channel,
   data |-> [type |-> "batch", messages |-> group.dataArray,
             count |-> Len(group.dataArray)]]

\* lines 89-103: what is published for one channel
PublishOf(group) ==
  IF Len(group.dataArray) = 1
    THEN [channel |-> group.channel, data |-> group.dataArray[1]]
    ELSE [channel |-> group.channel,
          data |-> [type |-> "batch", messages |-> group.dataArray,
                    count |-> Len(group.dataArray)]]

Publishes(messages) ==
  LET groups == ChannelGroups(messages, 1, <<>>)
  IN [k \in 1..Len(groups) |-> PublishOf(groups[k])]

\* the messages a publish carries
Carried(pub) ==
  IF "type" \in DOMAIN pub.data
    THEN {pub.data.messages[k].id : k \in 1..Len(pub.data.messages)}
    ELSE {pub.data.id}

CarriedBy(pubs) == UNION {Carried(pubs[k]) : k \in 1..Len(pubs)}

TimesCarried(pubs, id) ==
  Cardinality({k \in 1..Len(pubs) : id \in Carried(pubs[k])})

MqInit ==
  /\ messageQueue = <<>>
  /\ batchTimer = Undefined
  /\ flushIn = FlushIntervalMs
  /\ mqFlights = 0
  /\ mqLast = NoFlushYet
  /\ mqEnd = NoEnd
  /\ nextId = 0
  /\ pubCount = [m \in MsgIds |-> 0]
  /\ oldestAge = 0

\* a flush that reads the queue without splicing it: the messages it
\* publishes stay queued
FlushMessageQueueNoSplice(queue, trigger) ==
  /\ batchTimer' = Undefined
  /\ oldestAge' = 0
  /\ messageQueue' = queue
  /\ IF queue = <<>>
       THEN UNCHANGED <<mqFlights, mqLast, pubCount>>
       ELSE LET pubs == Publishes(queue)
            IN /\ mqFlights' = mqFlights + 1
               /\ mqLast' = [trigger |-> trigger, messages |-> queue,
                             publishes |-> pubs]
               /\ pubCount' = [m \in MsgIds |->
                                 pubCount[m] + TimesCarried(pubs, m)]

\* flushMessageQueue up to `await Promise.all`, run on the queue `queue`:
\* the timer is cleared, and a queue that is not empty is emptied and
\* published per channel
FlushMessageQueue(queue, trigger) ==
  /\ batchTimer' = Undefined
  /\ oldestAge' = 0
  /\ IF queue = <<>>
       THEN /\ messageQueue' = queue
            /\ UNCHANGED <<mqFlights, mqLast, pubCount>>
       ELSE LET pubs == Publishes(queue)
            IN /\ messageQueue' = <<>>
               /\ mqFlights' = mqFlights + 1
               /\ mqLast' = [trigger |-> trigger, messages |-> queue,
                             publishes |-> pubs]
               /\ pubCount' = [m \in MsgIds |->
                                 pubCount[m] + TimesCarried(pubs, m)]

\* time passes
MqTick ==
  /\ batchTimer' = IF batchTimer = Undefined THEN Undefined
                   ELSE Elapse(batchTimer)
  /\ flushIn' = Elapse(flushIn)
  /\ oldestAge' = IF messageQueue = <<>> THEN 0
                  ELSE IF oldestAge + MqStep > MaxWaitMs THEN MaxWaitMs
                  ELSE oldestAge + MqStep
  /\ UNCHANGED <<messageQueue, mqFlights, mqLast, mqEnd, nextId, pubCount>>
  /\ UNCHANGED <<rlVars, cfVars, cbVars, caVars, plVars, erVars, ptVars, evVars>>

\* a queueMessage whose size test is off by one
QueueMessageLateFlush(ch) ==
  /\ nextId < MaxMsgs
  /\ nextId' = nextId + 1
  /\ LET queue == Append(messageQueue,
                         [channel |-> ch, data |-> Payload(nextId + 1)])
     IN IF Len(queue) > BATCH_CONFIG.maxSize
          THEN FlushMessageQueue(queue, "size")
          ELSE /\ messageQueue' = queue
               /\ batchTimer' = IF batchTimer = Undefined
                                  THEN BATCH_CONFIG.maxWaitMs
                                  ELSE batchTimer
               /\ UNCHANGED <<mqFlights, mqLast, pubCount, oldestAge>>
  /\ UNCHANGED <<flushIn, mqEnd>>
  /\ UNCHANGED <<rlVars, cfVars, cbVars, caVars, plVars, erVars, ptVars, evVars>>

\* queueMessage(channel, data): push, then flush at once when the queue
\* has reached maxSize, else arm the timer unless it is armed
QueueMessage(ch) ==
  /\ nextId < MaxMsgs
  /\ nextId' = nextId + 1
  /\ LET queue == Append(messageQueue,
                         [channel |-> ch, data |-> Payload(nextId + 1)])
     IN IF Len(queue) >= BATCH_CONFIG.maxSize
          THEN FlushMessageQueue(queue, "size")
          ELSE /\ messageQueue' = queue
               /\ batchTimer' = IF batchTimer = Undefined
                                  THEN BATCH_CONFIG.maxWaitMs
                                  ELSE batchTimer
               /\ UNCHANGED <<mqFlights, mqLast, pubCount, oldestAge>>
  /\ UNCHANGED <<flushIn, mqEnd>>
  /\ UNCHANGED <<rlVars, cfVars, cbVars, caVars, plVars, erVars, ptVars, evVars>>

\* the setTimeout callback of queueMessage runs
TimerFires ==
  /\ batchTimer = 0
  /\ FlushMessageQueue(messageQueue, "timer")
  /\ UNCHANGED <<flushIn, mqEnd, nextId>>
  /\ UNCHANGED <<rlVars, cfVars, cbVars, caVars, plVars, erVars, ptVars, evVars>>

\* the setInterval callback of line 115 runs
IntervalFires ==
  /\ flushIn = 0
  /\ flushIn' = BATCH_CONFIG.flushIntervalMs
  /\ FlushMessageQueue(messageQueue, "interval")
  /\ UNCHANGED <<mqEnd, nextId>>
  /\ UNCHANGED <<rlVars, cfVars, cbVars, caVars, plVars, erVars, ptVars, evVars>>

\* a catch that puts the messages of the failed flush back in the queue
PublishSettlesRequeue(ok) ==
  /\ mqFlights > 0
  /\ mqFlights' = mqFlights - 1
  /\ mqEnd' = [ended |-> TRUE, ok |-> ok, threw |-> FALSE]
  /\ messageQueue' = IF ok THEN messageQueue
                     ELSE mqLast.messages \o messageQueue
  /\ UNCHANGED <<batchTimer, flushIn, mqLast, nextId, pubCount, oldestAge>>
  /\ UNCHANGED <<rlVars, cfVars, cbVars, caVars, plVars, erVars, ptVars, evVars>>

\* Promise.all settles: every publish resolved, or one rejected and the
\* catch logs it; either way flushMessageQueue returns normally
PublishSettles(ok) ==
  /\ mqFlights > 0
  /\ mqFlights' = mqFlights - 1
  /\ mqEnd' = [ended |-> TRUE, ok |-> ok, threw |-> FALSE]
  /\ UNCHANGED <<messageQueue, batchTimer, flushIn, mqLast, nextId,
                 pubCount, oldestAge>>
  /\ UNCHANGED <<rlVars, cfVars, cbVars, caVars, plVars, erVars, ptVars, evVars>>

MqNext ==
  \/ MqTick
  \/ \E ch \in Channels : QueueMessage(ch)
  \/ TimerFires
  \/ IntervalFires
  \/ \E ok \in BOOLEAN : PublishSettles(ok)

(***************************************************************************)
(* 5. Cache manager: get(key, computeFn) behind getMenusCached.  The       *)
(*    manager's own module (~/lib/cache/cache-manager) is not among the    *)
(*    sources; get, its in-flight marker and invalidate follow the         *)
(*    CacheManager contract (section 4.2) and the suspension-point rule    *)
(*    (section 5) of the specification.                                    *)
(***************************************************************************)
\* how many computeFn calls one behaviour makes per key
MaxFnCalls == 2

\* CACHE_KEYS.MENUS, the key of getMenusCached
CacheKeys == {"menus:all"}
\* concurrent requests calling getMenusCached
Getters == {"g1", "g2", "g3"}
\* what db.menu.findMany may return: the table changes between two
\* computations
Rows == {1, 2}
NoValue == 0

NoGet == [pc |-> "idle", key |-> "none", round |-> 0]
NoGot == [key |-> "none", outcome |-> "none", value |-> NoValue,
          round |-> 0]

\* getters awaiting the computation of key k
Awaiting(k) ==
  {g \in Getters : cacheCall[g].pc = "await" /\ cacheCall[g].key = k}

CaInit ==
  /\ cacheStore = [k \in CacheKeys |-> NoValue]
  /\ inFlight = [k \in CacheKeys |-> FALSE]
  /\ cacheCall = [g \in Getters |-> NoGet]
  /\ cacheGot = [g \in Getters |-> NoGot]
  /\ fnRunning = [k \in CacheKeys |-> 0]
  /\ fnCalls = [k \in CacheKeys |-> 0]

\* a miss that calls computeFn itself: sets the marker of the key
InvokeFn(g, k) ==
  /\ fnCalls[k] < MaxFnCalls
  /\ inFlight' = [inFlight EXCEPT ![k] = TRUE]
  /\ fnRunning' = [fnRunning EXCEPT ![k] = @ + 1]
  /\ fnCalls' = [fnCalls EXCEPT ![k] = @ + 1]
  /\ cacheCall' = [cacheCall EXCEPT ![g] =
                     [pc |-> "await", key |-> k, round |-> fnCalls[k] + 1]]
  /\ UNCHANGED <<cacheStore, cacheGot>>

\* get without the marker test: every miss calls computeFn
CacheGetNoMarker(g, k) ==
  /\ cacheCall[g].pc = "idle"
  /\ IF cacheStore[k] # NoValue
       THEN /\ cacheGot' = [cacheGot EXCEPT ![g] =
                              [key |-> k, outcome |-> "hit",
                               value |-> cacheStore[k], round |-> 0]]
            /\ UNCHANGED <<cacheStore, inFlight, cacheCall, fnRunning,
                           fnCalls>>
       ELSE InvokeFn(g, k)
  /\ UNCHANGED <<rlVars, cfVars, cbVars, mqVars, plVars, erVars, ptVars, evVars>>

\* cache.get(key, computeFn, {ttl}): a hit returns the stored value; a miss
\* awaits the computation in flight for the key when there is one, and
\* calls computeFn otherwise
CacheGet(g, k) ==
  /\ cacheCall[g].pc = "idle"
  /\ IF cacheStore[k] # NoValue
       THEN /\ cacheGot' = [cacheGot EXCEPT ![g] =
                              [key |-> k, outcome |-> "hit",
                               value |-> cacheStore[k], round |-> 0]]
            /\ UNCHANGED <<cacheStore, inFlight, cacheCall, fnRunning,
                           fnCalls>>
       ELSE IF inFlight[k]
         THEN /\ cacheCall' = [cacheCall EXCEPT ![g] =
                                 [pc |-> "await", key |-> k,
                                  round |-> fnCalls[k]]]
              /\ UNCHANGED <<cacheStore, inFlight, cacheGot, fnRunning,
                             fnCalls>>
         ELSE InvokeFn(g, k)
  /\ UNCHANGED <<rlVars, cfVars, cbVars, mqVars, plVars, erVars, ptVars, evVars>>

\* what settling the computation of key k hands to the getters awaiting it
Settled(k, outcome, value) ==
  [g \in Getters |->
     IF g \in Awaiting(k)
       THEN [key |-> k, outcome |-> outcome, value |-> value,
             round |-> cacheCall[g].round]
       ELSE cacheGot[g]]

\* computeFn resolves with v: the value is stored with its TTL, the marker
\* is released, every getter awaiting the key returns v
FnResolves(k, v) ==
  /\ fnRunning[k] > 0
  /\ cacheStore' = [cacheStore EXCEPT ![k] = v]
  /\ inFlight' = [inFlight EXCEPT ![k] = FALSE]
  /\ fnRunning' = [fnRunning EXCEPT ![k] = @ - 1]
  /\ cacheCall' = [g \in Getters |->
                     IF g \in Awaiting(k) THEN NoGet ELSE cacheCall[g]]
  /\ cacheGot' = Settled(k, "value", v)
  /\ UNCHANGED fnCalls
  /\ UNCHANGED <<rlVars, cfVars, cbVars, mqVars, plVars, erVars, ptVars, evVars>>

\* computeFn rejects: nothing is stored, the marker is released, the error
\* goes to every getter awaiting the key
FnRejects(k) ==
  /\ fnRunning[k] > 0
  /\ inFlight' = [inFlight EXCEPT ![k] = FALSE]
  /\ fnRunning' = [fnRunning EXCEPT ![k] = @ - 1]
  /\ cacheCall' = [g \in Getters |->
                     IF g \in Awaiting(k) THEN NoGet ELSE cacheCall[g]]
  /\ cacheGot' = Settled(k, "error", NoValue)
  /\ UNCHANGED <<cacheStore, fnCalls>>
  /\ UNCHANGED <<rlVars, cfVars, cbVars, mqVars, plVars, erVars, ptVars, evVars>>

\* cache.invalidate(key), or the TTL of the stored value running out
CacheInvalidate(k) ==
  /\ cacheStore[k] # NoValue
  /\ cacheStore' = [cacheStore EXCEPT ![k] = NoValue]
  /\ UNCHANGED <<inFlight, cacheCall, cacheGot, fnRunning, fnCalls>>
  /\ UNCHANGED <<rlVars, cfVars, cbVars, mqVars, plVars, erVars, ptVars, evVars>>

CaNext ==
  \/ \E g \in Getters, k \in CacheKeys : CacheGet(g, k)
  \/ \E k \in CacheKeys, v \in Rows : FnResolves(k, v)
  \/ \E k \in CacheKeys : FnRejects(k)
  \/ \E k \in CacheKeys : CacheInvalidate(k)

(***************************************************************************)
(* 6. Rate limiter, pipeline variant: checkRateLimit of                    *)
(*    static-optimizer.server.ts.  The four commands go out in one         *)
(*    pipeline, which is no transaction: commands of other clients may run *)
(*    between them.                                                        *)
(***************************************************************************)
\* how many calls of the pipeline variant one behaviour makes
MaxPlCalls == 7
\* number of clock steps this limiter's clock may take
MaxPlTicks == 2

\* RATE_LIMITS.participation of static-optimizer.server.ts
PlWindowMs == 1000
PlMaxRequests == 5
PlConfig == [windowMs |-> PlWindowMs, maxRequests |-> PlMaxRequests]

PlStep == PlWindowMs \div 2

PlIdle == [pc |-> "idle", id |-> "none", now |-> Undefined, n |-> 0]
PlNoResult == [id |-> "none", at |-> Undefined, allowed |-> TRUE,
               remaining |-> 0, resetAt |-> 0, count |-> 0,
               member |-> <<Undefined, 0>>]

\* ZREMRANGEBYSCORE key min max: scores in [min, max] go
PlZRemRangeByScore(set, min, max) ==
  {m \in set : ~(m[1] >= min /\ m[1] <= max)}

\* the object checkRateLimit returns for the ZCARD reply `count`
PlResultOf(count, callNow) ==
  [allowed |-> (count <= PlConfig.maxRequests),
   remaining |-> Max0(PlConfig.maxRequests - count),
   resetAt |-> callNow + PlConfig.windowMs]

PlInit ==
  /\ plNow = 0
  /\ plZset = [i \in Identifiers |-> {}]
  /\ plTtl = [i \in Identifiers |-> Undefined]
  /\ plCall = [p \in Procs |-> PlIdle]
  /\ plLast = PlNoResult
  /\ plCalls = 0
  /\ plRejected = {}

\* time passes
PlTick ==
  /\ plNow < MaxPlTicks * PlStep
  /\ plNow' = plNow + PlStep
  /\ UNCHANGED <<plZset, plTtl, plCall, plLast, plCalls, plRejected>>
  /\ UNCHANGED <<rlVars, cfVars, cbVars, mqVars, caVars, erVars, ptVars, evVars>>

\* the store drops a key whose PEXPIRE time has come
PlKeyExpire(i) ==
  /\ plTtl[i] # Undefined
  /\ plNow >= plTtl[i]
  /\ plZset' = [plZset EXCEPT ![i] = {}]
  /\ plTtl' = [plTtl EXCEPT ![i] = Undefined]
  /\ UNCHANGED <<plNow, plCall, plLast, plCalls, plRejected>>
  /\ UNCHANGED <<rlVars, cfVars, cbVars, mqVars, caVars, erVars, ptVars, evVars>>

\* checkRateLimit up to `await pipeline.exec()`: key and now are fixed and
\* the member `${now}:${Math.random()}` is drawn (a value no call drew
\* before)
PlStart(p, i) ==
  /\ plCall[p].pc = "idle"
  /\ plCalls < MaxPlCalls
  /\ plCalls' = plCalls + 1
  /\ plCall' = [plCall EXCEPT ![p] =
                  [pc |-> "zrem", id |-> i, now |-> plNow,
                   n |-> plCalls + 1]]
  /\ UNCHANGED <<plNow, plZset, plTtl, plLast, plRejected>>
  /\ UNCHANGED <<rlVars, cfVars, cbVars, mqVars, caVars, erVars, ptVars, evVars>>

\* pipeline.zremrangebyscore(key, 0, now - config.windowMs)
PlZrem(p) ==
  /\ plCall[p].pc = "zrem"
  /\ LET c == plCall[p]
     IN plZset' = [plZset EXCEPT ![c.id] =
                     PlZRemRangeByScore(@, 0, c.now - PlConfig.windowMs)]
  /\ plCall' = [plCall EXCEPT ![p].pc = "zadd"]
  /\ UNCHANGED <<plNow, plTtl, plLast, plCalls, plRejected>>
  /\ UNCHANGED <<rlVars, cfVars, cbVars, mqVars, caVars, erVars, ptVars, evVars>>

\* pipeline.zadd(key, now, member): the call's entry goes in whatever the
\* count is
PlZadd(p) ==
  /\ plCall[p].pc = "zadd"
  /\ LET c == plCall[p]
     IN plZset' = [plZset EXCEPT ![c.id] = ZAdd(@, c.now, c.n)]
  /\ plCall' = [plCall EXCEPT ![p].pc = "zcard"]
  /\ UNCHANGED <<plNow, plTtl, plLast, plCalls, plRejected>>
  /\ UNCHANGED <<rlVars, cfVars, cbVars, mqVars, caVars, erVars, ptVars, evVars>>

\* pipeline.zcard(key) and pipeline.pexpire(key, windowMs), then the
\* return: count is the ZCARD reply, or 0 when that reply is missing
PlZcard(p, replied) ==
  /\ plCall[p].pc = "zcard"
  /\ LET c == plCall[p]
         count == IF replied THEN Cardinality(plZset[c.id]) ELSE 0
         r == PlResultOf(count, c.now)
     IN /\ plLast' = r @@ [id |-> c.id, at |-> c.now, count |-> count,
                          member |-> <<c.now, c.n>>]
        /\ plRejected' = IF r.allowed THEN plRejected
                         ELSE plRejected \cup {<<c.now, c.n>>}
        /\ plTtl' = [plTtl EXCEPT ![c.id] = plNow + PlConfig.windowMs]
  /\ plCall' = [plCall EXCEPT ![p] = PlIdle]
  /\ UNCHANGED <<plNow, plZset, plCalls>>
  /\ UNCHANGED <<rlVars, cfVars, cbVars, mqVars, caVars, erVars, ptVars, evVars>>

PlNext ==
  \/ PlTick
  \/ \E i \in Identifiers : PlKeyExpire(i)
  \/ \E p \in Procs, i \in Identifiers : PlStart(p, i)
  \/ \E p \in Procs : PlZrem(p)
  \/ \E p \in Procs : PlZadd(p)
  \/ \E p \in Procs, replied \in BOOLEAN : PlZcard(p, replied)

(***************************************************************************)
(* 7. executeWithRetry and isRetryableError (connection-pool.server.ts)    *)
(***************************************************************************)
\* the largest `retries` a call is made with (CONFIG.query.retryCount is 3)
MaxRetries == 3
\* CONFIG.query.retryDelay
RetryDelay == 100

Null == [kind |-> "null"]

\* what fn() may reject with: Prisma known request errors by code, Errors
\* by message (a sequence of words), and a thrown value that is no Error
FnErrors ==
  {[kind |-> "known", code |-> "P1001"],
   [kind |-> "known", code |-> "P2024"],
   [kind |-> "known", code |-> "P2002"],
   [kind |-> "error", message |-> <<"Connection", "refused">>],
   [kind |-> "error", message |-> <<"Query", "TIMEOUT">>],
   [kind |-> "error", message |-> <<"Unique", "constraint">>],
   [kind |-> "thrown"]}

\* String.prototype.toLowerCase on the words of the messages
ToLowerCase(w) ==
  CASE w = "Connection" -> "connection"
    [] w = "Unique" -> "unique"
    [] w = "Query" -> "query"
    [] w = "TIMEOUT" -> "timeout"
    [] OTHER -> w

\* message.toLowerCase().includes(part), for a part that is one word
Includes(message, part) ==
  \E k \in 1..Len(message) : ToLowerCase(message[k]) = part

\* isRetryableError(error)
IsRetryableError(e) ==
  IF e.kind = "known"
    THEN e.code \in {"P1001", "P1002", "P1008", "P2024"}
    ELSE IF e.kind = "error"
      THEN \/ Includes(e.message, "connection")
           \/ Includes(e.message, "timeout")
           \/ Includes(e.message, "pool")
      ELSE FALSE

ErIdle == [pc |-> "idle", retries |-> 0, attempt |-> 0, lastError |-> Null]
ErNoEnd == [kind |-> "none", value |-> Null]

ErInit ==
  /\ erCall = ErIdle
  /\ erEnd = ErNoEnd
  /\ erInvoked = 0
  /\ erErrors = <<>>
  /\ erSleeps = <<>>

\* the head of the for loop with `attempt`: call fn, or leave the loop and
\* `throw lastError`
ErLoop(call, attempt) ==
  IF attempt <= call.retries
    THEN /\ erCall' = [call EXCEPT !.pc = "fn", !.attempt = attempt]
         /\ erInvoked' = erInvoked + 1
         /\ erEnd' = ErNoEnd
    ELSE /\ erCall' = [call EXCEPT !.pc = "done", !.attempt = attempt]
         /\ erEnd' = [kind |-> "throw", value |-> call.lastError]
         /\ UNCHANGED erInvoked

\* executeWithRetry(fn, retries) is called
ErStart(retries) ==
  /\ erCall.pc \in {"idle", "done"}
  /\ erErrors' = <<>>
  /\ erSleeps' = <<>>
  /\ IF 1 <= retries
       THEN /\ erCall' = [pc |-> "fn", retries |-> retries, attempt |-> 1,
                          lastError |-> Null]
            /\ erInvoked' = 1
            /\ erEnd' = ErNoEnd
       ELSE /\ erCall' = [pc |-> "done", retries |-> retries, attempt |-> 1,
                          lastError |-> Null]
            /\ erEnd' = [kind |-> "throw", value |-> Null]
            /\ erInvoked' = 0
  /\ UNCHANGED <<rlVars, cfVars, cbVars, mqVars, caVars, plVars, ptVars, evVars>>

\* fn() resolves: `return await fn()`
ErFnResolves ==
  /\ erCall.pc = "fn"
  /\ erCall' = [erCall EXCEPT !.pc = "done"]
  /\ erEnd' = [kind |-> "return", value |-> [attempt |-> erInvoked]]
  /\ UNCHANGED <<erInvoked, erErrors, erSleeps>>
  /\ UNCHANGED <<rlVars, cfVars, cbVars, mqVars, caVars, plVars, ptVars, evVars>>

\* a catch that sleeps after every retryable failure, the last included
ErFnRejectsSleepAlways(e) ==
  /\ erCall.pc = "fn"
  /\ erErrors' = Append(erErrors, e)
  /\ IF ~IsRetryableError(e)
       THEN /\ erCall' = [erCall EXCEPT !.pc = "done", !.lastError = e]
            /\ erEnd' = [kind |-> "throw", value |-> e]
            /\ UNCHANGED <<erInvoked, erSleeps>>
       ELSE /\ erCall' = [erCall EXCEPT !.pc = "sleep", !.lastError = e]
            /\ erSleeps' = Append(erSleeps, RetryDelay * erCall.attempt)
            /\ UNCHANGED <<erInvoked, erEnd>>
  /\ UNCHANGED <<rlVars, cfVars, cbVars, mqVars, caVars, plVars, ptVars, evVars>>

\* fn() rejects with e: the catch keeps e as lastError, rethrows one that
\* is not retryable, sleeps before another attempt when one is left, and
\* moves to the next turn of the loop
ErFnRejects(e) ==
  /\ erCall.pc = "fn"
  /\ erErrors' = Append(erErrors, e)
  /\ LET call == [erCall EXCEPT !.lastError = e]
     IN IF ~IsRetryableError(e)
          THEN /\ erCall' = [call EXCEPT !.pc = "done"]
               /\ erEnd' = [kind |-> "throw", value |-> e]
               /\ UNCHANGED <<erInvoked, erSleeps>>
          ELSE IF call.attempt < call.retries
            THEN /\ erCall' = [call EXCEPT !.pc = "sleep"]
                 /\ erSleeps' = Append(erSleeps, RetryDelay * call.attempt)
                 /\ UNCHANGED <<erInvoked, erEnd>>
            ELSE /\ ErLoop(call, call.attempt + 1)
                 /\ UNCHANGED erSleeps
  /\ UNCHANGED <<rlVars, cfVars, cbVars, mqVars, caVars, plVars, ptVars, evVars>>

\* the setTimeout of sleep(delay) fires: next turn of the loop
ErWakes ==
  /\ erCall.pc = "sleep"
  /\ ErLoop(erCall, erCall.attempt + 1)
  /\ UNCHANGED <<erErrors, erSleeps>>
  /\ UNCHANGED <<rlVars, cfVars, cbVars, mqVars, caVars, plVars, ptVars, evVars>>

ErNext ==
  \/ \E retries \in 0..MaxRetries : ErStart(retries)
  \/ ErFnResolves
  \/ \E e \in FnErrors : ErFnRejects(e)
  \/ ErWakes

(***************************************************************************)
(* 8. Point balance: deductPoints (connection-pool.server.ts) and the      *)
(*    event participation action (part_012), both for one user             *)
(***************************************************************************)
\* how many deductions one behaviour starts
MaxPtOps == 3
\* POINT_CONFIG.SIGNUP_BONUS, the balance a user starts with
SignupBonus == 100
\* amounts of deductPoints, and totalCost = event.pointCost + points of a
\* participation
Amounts == {40, 60, 100}
PointOps == {"deductPoints", "participate"}

PtIdle == [pc |-> "idle", op |-> "none", amount |-> 0, seen |-> 0]
PtNone == [op |-> "none", outcome |-> "none", before |-> 0, amount |-> 0]

PtInit ==
  /\ ptBalance = SignupBonus
  /\ ptCall = [p \in Procs |-> PtIdle]
  /\ ptLast = PtNone
  /\ ptOps = 0

\* the read and the test: `getUserPoints` and `balance < amount` of
\* deductPoints, `db.userPoints.findUnique` and `balance < totalCost` of
\* the participation; a balance that is too small ends the operation
PtCheck(p, op, amount) ==
  /\ ptCall[p].pc = "idle"
  /\ ptOps < MaxPtOps
  /\ ptOps' = ptOps + 1
  /\ IF ptBalance < amount
       THEN /\ ptLast' = [op |-> op, outcome |-> "insufficient",
                          before |-> ptBalance, amount |-> amount]
            /\ UNCHANGED ptCall
       ELSE /\ ptCall' = [ptCall EXCEPT ![p] =
                            [pc |-> "checked", op |-> op, amount |-> amount,
                             seen |-> ptBalance]]
            /\ UNCHANGED ptLast
  /\ UNCHANGED ptBalance
  /\ UNCHANGED <<rlVars, cfVars, cbVars, mqVars, caVars, plVars, erVars,
                 evVars>>

\* the write: `balance: { decrement: amount }`, on its own in deductPoints
\* and inside db.$transaction in the participation, where a later
\* statement that fails rolls it back
PtDecrement(p, committed) ==
  /\ ptCall[p].pc = "checked"
  /\ committed \/ ptCall[p].op = "participate"
  /\ ptBalance' = IF committed THEN ptBalance - ptCall[p].amount
                  ELSE ptBalance
  /\ ptLast' = [op |-> ptCall[p].op,
                outcome |-> IF committed THEN "deducted" ELSE "rolled back",
                before |-> ptBalance, amount |-> ptCall[p].amount]
  /\ ptCall' = [ptCall EXCEPT ![p] = PtIdle]
  /\ UNCHANGED ptOps
  /\ UNCHANGED <<rlVars, cfVars, cbVars, mqVars, caVars, plVars, erVars,
                 evVars>>

PtNext ==
  \/ \E p \in Procs, op \in PointOps, a \in Amounts : PtCheck(p, op, a)
  \/ \E p \in Procs, committed \in BOOLEAN : PtDecrement(p, committed)

(***************************************************************************)
(* 9. Event settlement: the result route (admin.events.$id.result.tsx) and *)
(*    the status update of the event route (api.events.$id.tsx)            *)
(***************************************************************************)
\* how many settlement actions one behaviour runs
MaxSettles == 2

EventStatus == {"UPCOMING", "OPEN", "CLOSED", "SETTLED", "CANCELLED"}

\* STATUS_ACTIONS: the status buttons the event page offers
STATUS_ACTIONS ==
  [s \in EventStatus |->
     CASE s = "UPCOMING" -> {"OPEN"}
       [] s = "OPEN" -> {"CLOSED"}
       [] s = "CLOSED" -> {"OPEN"}
       [] s = "SETTLED" -> {}
       [] s = "CANCELLED" -> {"UPCOMING"}]

Admins == {"adm1", "adm2"}
Users == {"u1", "u2"}
Options == {"A", "B"}

\* event.participations: one per user, made while the event was open
Participations ==
  [u1 |-> [userId |-> "u1", choice |-> "A", points |-> 10],
   u2 |-> [userId |-> "u2", choice |-> "B", points |-> 15]]

\* event.rewardMultiplier (2.0 by default), in tenths
RewardMultiplierTenths == 20

\* Math.floor(participation.points * event.rewardMultiplier) for a winner
Reward(part, correctAnswer) ==
  IF part.choice = correctAnswer
    THEN (part.points * RewardMultiplierTenths) \div 10
    ELSE 0

EvInit ==
  /\ evStatus = "OPEN"
  /\ evAnswer = "none"
  /\ evResult = [a \in Admins |-> FALSE]
  /\ evDetail = [a \in Admins |-> "none"]
  /\ evBalance = [u \in Users |-> 0]
  /\ evCredited = [u \in Users |-> 0]
  /\ evSettles = 0

\* the loader of the event page: the page shows the buttons of the status
\* it read
EvDetailLoader(a) ==
  /\ evDetail' = [evDetail EXCEPT ![a] = evStatus]
  /\ UNCHANGED <<evStatus, evAnswer, evResult, evBalance, evCredited,
                 evSettles>>
  /\ UNCHANGED <<rlVars, cfVars, cbVars, mqVars, caVars, plVars, erVars,
                 ptVars>>

\* the action of the event page with _action = updateStatus, sent by one
\* of the buttons of the page: the status is written as posted
EvUpdateStatus(a, status) ==
  /\ evDetail[a] # "none"
  /\ status \in STATUS_ACTIONS[evDetail[a]]
  /\ evStatus' = status
  /\ evDetail' = [evDetail EXCEPT ![a] = "none"]
  /\ UNCHANGED <<evAnswer, evResult, evBalance, evCredited, evSettles>>
  /\ UNCHANGED <<rlVars, cfVars, cbVars, mqVars, caVars, plVars, erVars,
                 ptVars>>

\* the loader of the result page: only a CLOSED event gets the form
EvResultLoader(a) ==
  /\ evStatus = "CLOSED"
  /\ evResult' = [evResult EXCEPT ![a] = TRUE]
  /\ UNCHANGED <<evStatus, evAnswer, evDetail, evBalance, evCredited,
                 evSettles>>
  /\ UNCHANGED <<rlVars, cfVars, cbVars, mqVars, caVars, plVars, erVars,
                 ptVars>>

\* the action of the result page, posted from an open form: in one
\* transaction every participation gets isWinner and reward, every winner's
\* balance is incremented by the reward, and the event becomes SETTLED
EvSettle(a, correctAnswer) ==
  /\ evResult[a]
  /\ evSettles < MaxSettles
  /\ evSettles' = evSettles + 1
  /\ evResult' = [evResult EXCEPT ![a] = FALSE]
  /\ evBalance' = [u \in Users |->
                     evBalance[u] + Reward(Participations[u], correctAnswer)]
  /\ evCredited' = [u \in Users |->
                      IF Reward(Participations[u], correctAnswer) > 0
                        THEN evCredited[u] + 1 ELSE evCredited[u]]
  /\ evStatus' = "SETTLED"
  /\ evAnswer' = correctAnswer
  /\ UNCHANGED evDetail
  /\ UNCHANGED <<rlVars, cfVars, cbVars, mqVars, caVars, plVars, erVars,
                 ptVars>>

EvNext ==
  \/ \E a \in Admins : EvDetailLoader(a)
  \/ \E a \in Admins, s \in EventStatus : EvUpdateStatus(a, s)
  \/ \E a \in Admins : EvResultLoader(a)
  \/ \E a \in Admins, o \in Options : EvSettle(a, o)

(***************************************************************************)
(* Specifications                                                          *)
(***************************************************************************)
Init ==
  RlInit /\ CfInit /\ CbInit /\ MqInit /\ CaInit /\ PlInit /\ ErInit
  /\ PtInit /\ EvInit

Next ==
  RlNext \/ CfNext \/ CbNext \/ MqNext \/ CaNext \/ PlNext \/ ErNext
  \/ PtNext \/ EvNext

\* the whole core
Spec == Init /\ [][Next]_vars

\* the rate limiter alone
SpecRL == Init /\ [][RlNext]_vars

\* the view counters alone, the rate limiter at rest in one limit class
InitOne == Init /\ rlType = "participation"

SpecCF == InitOne /\ [][CfNext]_vars

\* the circuit breaker alone
SpecCB == InitOne /\ [][CbNext]_vars

\* the message batcher alone
SpecMQ == InitOne /\ [][MqNext]_vars

\* the message batcher with a clock that advances and an event loop that
\* runs the timer callbacks that are due
SpecMQLive ==
  /\ SpecMQ
  /\ WF_vars(MqTick) /\ WF_vars(TimerFires) /\ WF_vars(IntervalFires)

\* the circuit breaker with a clock that keeps running; nothing obliges the
\* promise of fn() to settle: the store behind it may never respond
SpecCBLive == SpecCB /\ WF_vars(CbTick)

\* the cache manager alone
SpecCache == InitOne /\ [][CaNext]_vars

\* the pipeline variant of the rate limiter alone
SpecPL == InitOne /\ [][PlNext]_vars

\* the point balance of one user alone
SpecPoints == InitOne /\ [][PtNext]_vars

\* the settlement of one event alone
SpecEvent == InitOne /\ [][EvNext]_vars

\* executeWithRetry alone: an fn that settles (the claim's premise) and a
\* timer that fires
SpecRetry ==
  /\ InitOne
  /\ [][ErNext]_vars
  /\ WF_vars(ErFnResolves \/ \E e \in FnErrors : ErFnRejects(e))
  /\ WF_vars(ErWakes)

(***************************************************************************)
(* Claims about the rate limiter                                           *)
(***************************************************************************)
\* C1: for every limit class and identifier, when every check so far ran
\* at once (no script was delayed), a check answered by the store is allowed
\* while fewer than maxRequests allowed checks lie in the window ending at
\* it, and once maxRequests of them do, the next check is rejected with
\* retryAfter = ceil(windowMs/1000).
C1_MaxThenReject ==
  (rlLast.id # "none" /\ ~rlLast.failOpen /\ ~delayed) =>
     /\ rlLast.seen < MaxRequests => rlLast.allowed
     /\ rlLast.seen >= MaxRequests =>
          (~rlLast.allowed /\ rlLast.retryAfter = CeilDiv(WindowMs, 1000))

\* C2: for any interleaving of concurrent checks on one key, the allowed
\* checks whose timestamps lie in one window never exceed maxRequests.
C2_AtMostMaxAllowed ==
  \A i \in Identifiers : \A t \in Times :
    AllowedInWindow(i, t) <= MaxRequests

\* C16: a check whose redis.eval raised returns allowed = true, and the
\* rate limiter's metric has recorded the degraded enforcement.
C16_FailOpenWithMetric ==
  rlLast.failOpen => (rlLast.allowed /\ rateLimitBlocks > 0)

\* C17: allowed checks that lie windowMs or more in the past do not count:
\* a check answered by the store is allowed whenever fewer than maxRequests
\* allowed checks of the identifier lie in the window ending at it,
\* however many lie before it (no script was delayed).
C17_WindowReset ==
  (rlLast.id # "none" /\ ~rlLast.failOpen /\ ~delayed
     /\ rlLast.seen < MaxRequests) =>
    (rlLast.allowed /\ rlLast.retryAfter = Undefined)

\* maxRequests checks were allowed at time 0 and the check at windowMs,
\* the next one made, is allowed
C17_Witness ==
  /\ rlLast.id # "none" /\ ~rlLast.failOpen /\ ~delayed
  /\ rlLast.at = WindowMs /\ rlLast.seen = 0 /\ rlLast.allowed
  /\ allowedAt[rlLast.id][0] = MaxRequests

\* C18: a check answered by the store (no script delayed) that is the
\* k-th allowed one of its window returns remaining = maxRequests - k and
\* total = maxRequests, a rejected one returns remaining = 0, and
\* remaining always lies in 0..total.
C18_RemainingCounts ==
  (rlLast.id # "none" /\ ~rlLast.failOpen /\ ~delayed) =>
    /\ rlLast.total = MaxRequests
    /\ rlLast.remaining \in 0..rlLast.total
    /\ rlLast.allowed => rlLast.remaining = MaxRequests - (rlLast.seen + 1)
    /\ ~rlLast.allowed => rlLast.remaining = 0

\* C22: rateLimit returns a response exactly when the check is rejected
\* by the script; the response has status 429, the headers
\* X-RateLimit-Limit (the class's maximum), X-RateLimit-Remaining,
\* X-RateLimit-Reset and Retry-After (the window in seconds), and a body
\* with an error code and a message; an allowed check, also one allowed by
\* failing open, gets null.
C22_ResponseWhenRejected ==
  rlLast.id # "none" =>
    LET Header(n) == IF n \in DOMAIN rlResp.headers
                       THEN {rlResp.headers[n]} ELSE {}
    IN /\ (rlResp # NullResponse)
            <=> (~rlLast.failOpen /\ rlLast.retryAfter # Undefined)
       /\ rlLast.failOpen => rlResp = NullResponse
       /\ rlResp # NullResponse =>
            /\ rlResp.status = 429
            /\ Header("X-RateLimit-Limit") = {MaxRequests}
            /\ Header("X-RateLimit-Remaining") = {rlLast.remaining}
            /\ Header("X-RateLimit-Reset")
                 = {CeilDiv(rlLast.at + WindowMs, 1000)}
            /\ Header("Retry-After") = {CeilDiv(WindowMs, 1000)}
            /\ rlResp.body.error # ""
            /\ rlResp.body.message # ""

\* a check was rejected and rateLimit answered with a 429 response
C22_Witness ==
  /\ rlLast.id # "none"
  /\ ~rlLast.allowed
  /\ rlResp # NullResponse
  /\ rlResp.status = 429

\* C24: every allowed check adds one new entry to the window set, also
\* when allowed checks share a millisecond; so the entries of the set that
\* a purge at the present instant keeps are as many as the allowed checks
\* still inside the window.
C24_OneEntryPerAllowed ==
  \A i \in Identifiers :
    Cardinality(ZRemRangeByScore(zset[i], now - WindowMs))
      = AllowedInWindow(i, now)

\* the check of proc p is answered by its script in this step
Answered(p) ==
  /\ rlCall[p] # NoCall
  /\ rlCall'[p] = NoCall
  /\ ~rlLast'.failOpen

\* C25 as stated: a check purges exactly the entries with a timestamp
\* strictly less than now - windowMs; an entry whose timestamp equals
\* now - windowMs stays and is counted.
C25_PurgeStrictlyOlder ==
  [][\A p \in Procs : Answered(p) =>
       LET c == rlCall[p]
       IN \A m \in zset[c.id] :
            (m \in zset'[c.id]) <=> (m[1] >= c.now - WindowMs)]_vars

\* C25 amended: a check purges exactly the entries with a timestamp less
\* than or equal to now - windowMs; an entry whose timestamp equals
\* now - windowMs is gone before the count, one that is younger stays.
C25_PurgeBoundary ==
  [][\A p \in Procs : Answered(p) =>
       LET c == rlCall[p]
       IN \A m \in zset[c.id] :
            (m \in zset'[c.id]) <=> (m[1] > c.now - WindowMs)]_vars

\* a check made exactly windowMs after an allowed one purged that entry
\* and kept the entry half a window younger
C25_Witness ==
  /\ rlLast.id = "u1"
  /\ ~rlLast.failOpen
  /\ rlLast.at = WindowMs
  /\ allowedAt["u1"][0] > 0
  /\ \A m \in zset["u1"] : m[1] # 0
  /\ \E m \in zset["u1"] : m[1] = ClockStep

(***************************************************************************)
(* Claims about both rate limiters                                         *)
(***************************************************************************)
\* C23: a rejected check leaves the window set as it was: its entry is not
\* inserted, so no member of a window set is the entry of a check that
\* was answered allowed = false (pipeline variant; the Lua script never
\* writes on its rejecting branch).
C23_RejectedNotInserted ==
  \A i \in Identifiers : plZset[i] \cap plRejected = {}

(***************************************************************************)
(* Claims about the view counters                                          *)
(***************************************************************************)
AllIdle == Active = {}

\* every increment is either applied to the relational store or still held
\* in the counter key
Conserved == \A p \in Posts : dbViews[p] + redisViews[p] = incs[p]

\* C3: with flushes that ran one at a time and whose steps all succeeded,
\* whenever no flush is in progress every increment is either applied to
\* the relational store or still held in the counter key, however the
\* increments interleaved with the flushes.
C3_NoIncrementLost ==
  (AllIdle /\ ~overlapped /\ ~delFailed) => Conserved

\* C4: over any sequence of increments and flushes run one at a time,
\* failing steps included, the delta applied to the relational store for a
\* post never exceeds the number of increments of that post.
C4_NoDoubleCount ==
  ~overlapped => \A p \in Posts : dbViews[p] <= incs[p]

\* C5: without concurrent increments, overlapping flushes or a failed DEL,
\* increments are conserved between flushes, a flush that returns has
\* applied exactly the values it read, reports the number of posts it
\* updated and leaves no counter behind, and a flush with no new increment
\* applies nothing and returns 0.
C5_SequentialExact ==
  (~raced /\ ~overlapped /\ ~delFailed) =>
     /\ AllIdle => Conserved
     /\ (flLast.by # "none" /\ flLast.threw = "none") =>
          /\ flLast.delta = flLast.read
          /\ flLast.updated = Cardinality({p \in Posts : flLast.read[p] > 0})
          /\ (AllIdle /\ flLast.updated > 0 =>
                \A p \in Posts : flLast.read[p] > 0 =>
                    dbViews[p] + redisViews[p] = incs[p])
     /\ (AllIdle /\ redisViews = ZeroViews) => dbViews = incs

\* MaxIncs increments of one post were applied by one flush, and the flush
\* after it found nothing and returned 0
C5_Witness ==
  /\ ~raced /\ ~overlapped /\ ~delFailed /\ AllIdle
  /\ flLast.by # "none" /\ flLast.threw = "none" /\ flLast.updated = 0
  /\ redisViews = ZeroViews
  /\ \E p \in Posts : incs[p] = MaxIncs /\ dbViews[p] = MaxIncs

\* C6: at most one flushViewCounters invocation is in progress at a time.
C6_OneFlushAtATime == Cardinality(Active) <= 1

\* C7: a step in which the transaction of a flush fails changes neither
\* the relational store nor any counter key, and a counter key is deleted
\* only by a flush whose transaction has committed.
C7_FailedTxnKeepsKeys ==
  [][ /\ (flLast'.threw = "txn" /\ flLast' # flLast) =>
            (dbViews' = dbViews /\ redisViews' = redisViews)
      /\ \A p \in Posts :
            (redisViews[p] > 0 /\ redisViews'[p] = 0) =>
               \E f \in Flushers :
                  /\ flush[f].pc = "del"
                  /\ p \in flush[f].keys
                  /\ \A q \in Updates(flush[f].keys, flush[f].results) :
                        dbViews[q] >= flush[f].dbBefore[q] + flush[f].results[q]
    ]_vars

C7_Witness ==
  /\ flLast.threw = "txn"
  /\ \E p \in Posts : flLast.read[p] > 0 /\ redisViews[p] = flLast.read[p]
                        /\ dbViews[p] = 0

\* C21: leak guard.  After any increments and flushes, also an increment
\* that recreates a key a flush deleted and one whose EXPIRE fails, every
\* counter key that exists in the store carries an expiry.
C21_LeakGuard == \A p \in Posts : redisViews[p] > 0 => viewTtl[p]

(***************************************************************************)
(* Claims about the circuit breaker                                        *)
(***************************************************************************)
\* C8: a call that finds the circuit open less than CIRCUIT_TIMEOUT after
\* the last failure of fn never calls fn: it returns fallback() when one
\* was supplied and otherwise raises an error naming the operation.
C8_OpenNeverInvokes ==
  /\ \A c \in Callers : cbCall[c].pc = "fn" => ~cbCall[c].openEntry
  /\ cbLast.openEntry => cbLast.outcome \in {"fallback", "fastfail"}
  /\ cbLast.outcome = "fastfail" => cbLast.errName = cbLast.name

\* C9: with calls made one after the other: after CIRCUIT_THRESHOLD
\* consecutive failures the circuit is open (or half-open during a trial),
\* no call invokes fn before the timeout has elapsed since the last
\* failure, the first call after it invokes fn as the half-open trial, and
\* a trial that succeeds leaves the state closed with failure count 0.
C9_Lifecycle ==
  [][ ~cbConcurrent' =>
        /\ \A n \in Names :
             consec' >= CIRCUIT_THRESHOLD =>
               StateOf(heap', circuitStates', n).state \in {"open", "half-open"}
        /\ \A c \in Callers :
             (cbCall[c].pc = "idle" /\ cbCall'[c].pc = "fn") =>
               /\ ~cbCall'[c].openEntry
               /\ (StateOf(heap, circuitStates, cbCall'[c].name).state = "open"
                     => cbCall'[c].trial)
        /\ \A c \in Callers :
             (cbCall[c].pc = "fn" /\ cbCall[c].trial /\ cbCall'[c].pc = "idle"
                /\ cbLast'.outcome = "ok") =>
               StateOf(heap', circuitStates', cbCall[c].name) = ClosedState
    ]_vars

\* C10: while the half-open trial call awaits fn, no other call for the
\* same operation awaits fn after entering in the half-open state or as a
\* second trial.
C10_SingleTrial ==
  \A c \in Callers : \A d \in Callers \ {c} :
    (cbCall[c].pc = "fn" /\ cbCall[c].trial /\ cbCall[d].pc = "fn"
       /\ cbCall[d].name = cbCall[c].name) =>
      (~cbCall[d].halfOpenEntry /\ ~cbCall[d].trial)

\* C11: with calls made one after the other, a trial call whose fn fails
\* leaves the circuit open with the timeout restarted at the instant of
\* that failure.
C11_TrialFailureReopens ==
  [][ ~cbConcurrent' =>
        \A c \in Callers :
          (cbCall[c].pc = "fn" /\ cbCall[c].trial /\ cbCall'[c].pc = "idle"
             /\ cbLast'.outcome \in {"error", "fallback-error"}) =>
            LET st == StateOf(heap', circuitStates', cbCall[c].name)
            IN st.state = "open" /\ st.lastFailure = cbNow
    ]_vars

\* C27: the circuit opens only on consecutive failures: a success while
\* closed resets the count, so (already with calls that never overlap) a
\* circuit is open only when the failures since the last success reached
\* the threshold, and the stored failure count is the number of failures
\* since the last success.
C27_ConsecutiveFailuresOnly ==
  ~cbConcurrent =>
    \A n \in Names :
      LET st == StateOf(heap, circuitStates, n)
      IN /\ st.state = "open" => consec >= CIRCUIT_THRESHOLD
         /\ (InFn = {} /\ st.failures < CIRCUIT_THRESHOLD)
              => st.failures = consec

(***************************************************************************)
(* Claims about the message batcher                                        *)
(***************************************************************************)
\* the payloads of channel ch among the messages a flush took, in the
\* order of the queue
DataOf(messages, ch) ==
  LET own == SelectSeq(messages, LAMBDA m : m.channel = ch)
  IN [k \in 1..Len(own) |-> own[k].data]

\* C12: the flush that took messages last published, for every channel,
\* nothing when it took no message of the channel, that message's payload
\* unchanged when it took one, and one {type: 'batch', messages, count}
\* holding all k payloads when it took k > 1; every message it took is
\* carried by a publish.
C12_GroupingShape ==
  mqLast.trigger # "none" =>
    /\ \A ch \in Channels :
         LET d == DataOf(mqLast.messages, ch)
             mine == {k \in 1..Len(mqLast.publishes) :
                        mqLast.publishes[k].channel = ch}
         IN /\ Len(d) = 0 => mine = {}
            /\ Len(d) >= 1 => Cardinality(mine) = 1
            /\ Len(d) = 1 => \A k \in mine : mqLast.publishes[k].data = d[1]
            /\ Len(d) > 1 =>
                 \A k \in mine :
                   mqLast.publishes[k].data =
                     [type |-> "batch", messages |-> d, count |-> Len(d)]
    /\ CarriedBy(mqLast.publishes) =
         {mqLast.messages[k].data.id : k \in 1..Len(mqLast.messages)}

\* one flush took three messages of A and one of B
C12_Witness ==
  /\ Len(DataOf(mqLast.messages, "A")) = 3
  /\ Len(DataOf(mqLast.messages, "B")) = 1
  /\ Len(mqLast.publishes) = 2

\* C13: in every batch published by the flush that took messages last,
\* the payloads stand in the order of their queueMessage calls, and the
\* queue itself holds its messages in that order.
C13_EnqueueOrder ==
  /\ \A k \in 1..Len(mqLast.publishes) :
       LET data == mqLast.publishes[k].data
       IN "type" \in DOMAIN data =>
            \A i \in 1..Len(data.messages) : \A j \in 1..Len(data.messages) :
              i < j => data.messages[i].id < data.messages[j].id
  /\ \A i \in 1..Len(messageQueue) : \A j \in 1..Len(messageQueue) :
       i < j => messageQueue[i].data.id < messageQueue[j].data.id

\* a batch of A whose two messages were queued around a message of B
C13_Witness ==
  \E k \in 1..Len(mqLast.publishes) :
    LET pub == mqLast.publishes[k]
    IN /\ pub.channel = "A"
       /\ "type" \in DOMAIN pub.data
       /\ \E b \in 1..Len(mqLast.messages) :
            /\ mqLast.messages[b].channel = "B"
            /\ pub.data.messages[1].id < mqLast.messages[b].data.id
            /\ mqLast.messages[b].data.id < pub.data.messages[2].id

\* C14: the queue never holds more than maxSize messages (and holds
\* maxSize at no instant between two calls), while it is not empty the
\* timer is armed and due maxWaitMs after the oldest queued message was
\* pushed, the periodic flush is always scheduled, and a queue that is not
\* empty is eventually emptied by a flush.
C14_BoundedWait ==
  /\ [](Len(messageQueue) < BATCH_CONFIG.maxSize)
  /\ [](messageQueue # <<>> =>
          (batchTimer # Undefined
             /\ batchTimer = BATCH_CONFIG.maxWaitMs - oldestAge))
  /\ [](flushIn \in 0..BATCH_CONFIG.flushIntervalMs)
  /\ (messageQueue # <<>>) ~> (messageQueue = <<>>)

\* a message pushed by queueMessage waited for the timer and was taken by
\* the flush of the timer callback
C14_Witness ==
  /\ mqLast.trigger = "timer"
  /\ Len(mqLast.messages) >= 2
  /\ messageQueue = <<>>

\* C15: no message is carried by more than one publish, a queued message
\* has been carried by none, no flush raises to its caller, and the step in
\* which the publishes of a flush fail leaves the queue, the timer and the
\* record of what was published as they were.
C15_FailedBatchDropped ==
  /\ [](\A m \in MsgIds : pubCount[m] <= 1)
  /\ [](\A k \in 1..Len(messageQueue) :
          pubCount[messageQueue[k].data.id] = 0)
  /\ [](~mqEnd.threw)
  /\ [][ (mqFlights' < mqFlights /\ ~mqEnd'.ok) =>
           UNCHANGED <<messageQueue, batchTimer, pubCount>> ]_vars

\* every flush has settled, the last of them in failure, and the queue
\* holds messages pushed since
C15_Witness ==
  /\ mqEnd.ended /\ ~mqEnd.ok
  /\ mqFlights = 0
  /\ messageQueue # <<>>
  /\ \E m \in MsgIds : pubCount[m] = 1

\* the places of the queue that hold message m
QueuedAt(m) ==
  {k \in 1..Len(messageQueue) : messageQueue[k].data.id = m}

\* C26: each enqueued message is taken by exactly one flush, whichever of
\* the size test, the timer and the interval starts it and also while an
\* earlier flush still awaits its publishes: a message pushed so far is
\* either queued once and published by no flush, or no longer queued and
\* published by one flush once.
C26_OneFlushPerMessage ==
  \A m \in MsgIds :
    IF m > nextId
      THEN QueuedAt(m) = {} /\ pubCount[m] = 0
      ELSE \/ Cardinality(QueuedAt(m)) = 1 /\ pubCount[m] = 0
           \/ QueuedAt(m) = {} /\ pubCount[m] = 1

\* two flushes await their publishes at once, every message pushed has
\* been taken, and the interval started the later flush
C26_Witness ==
  /\ mqFlights = 2
  /\ nextId >= 2
  /\ messageQueue = <<>>
  /\ mqLast.trigger = "interval"

(***************************************************************************)
(* Claims about the cache manager                                          *)
(***************************************************************************)
\* C19: stampede protection.  While gets for one key overlap, computeFn
\* runs once for all of them: at most one computation per key is
\* unsettled, every getter awaiting a key awaits the latest computation of
\* that key, and that computation is still running (no getter waits on a
\* computation that has ended).  The in-flight marker is set exactly while
\* the computation is unsettled, so it is released on success and on
\* failure.  All getters that awaited a key return in the step that
\* settles it, with the same outcome and value.
C19_Stampede ==
  /\ [](\A k \in CacheKeys :
          /\ fnRunning[k] <= 1
          /\ inFlight[k] <=> (fnRunning[k] = 1)
          /\ \A g \in Awaiting(k) :
               fnRunning[k] = 1 /\ cacheCall[g].round = fnCalls[k])
  /\ [][\A k \in CacheKeys :
          (fnRunning'[k] < fnRunning[k]) =>
             /\ ~inFlight'[k]
             /\ \A g \in Awaiting(k) :
                  /\ cacheCall'[g].pc = "idle"
                  /\ \A h \in Awaiting(k) :
                       /\ cacheGot'[g].outcome = cacheGot'[h].outcome
                       /\ cacheGot'[g].value = cacheGot'[h].value]_vars

\* three overlapping gets for the menus were served by one computation:
\* computeFn has run once for the key, each getter holds its value, and
\* the marker is free again
C19_Witness ==
  /\ \A g \in Getters :
       /\ cacheGot[g].key = "menus:all"
       /\ cacheGot[g].outcome = "value"
       /\ cacheGot[g].round = 1
  /\ fnCalls["menus:all"] = 1
  /\ ~inFlight["menus:all"]

(***************************************************************************)
(* Claims about executeWithRetry                                           *)
(***************************************************************************)
\* the delays slept before attempt k + 1: retryDelay * 1 .. retryDelay * k
DelaysUpTo(k) == [j \in 1..k |-> RetryDelay * j]

\* C28: executeWithRetry(fn, retries) calls fn at most `retries` times and
\* ends when fn settles.  It returns the result of the first attempt that
\* succeeds, every attempt before it having failed with a retryable error;
\* it rethrows an error that is not retryable at once; after `retries`
\* retryable failures it rethrows the last of them; and it sleeps only
\* between attempts, never after the last one.
C28_RetryContract ==
  /\ [](/\ erInvoked <= erCall.retries
        /\ erEnd.kind = "return" =>
             /\ erEnd.value = [attempt |-> erInvoked]
             /\ Len(erErrors) = erInvoked - 1
             /\ \A k \in 1..Len(erErrors) : IsRetryableError(erErrors[k])
             /\ erSleeps = DelaysUpTo(erInvoked - 1)
        /\ (erEnd.kind = "throw" /\ erInvoked > 0) =>
             /\ Len(erErrors) = erInvoked
             /\ erEnd.value = erErrors[erInvoked]
             /\ \A k \in 1..(erInvoked - 1) : IsRetryableError(erErrors[k])
             /\ IsRetryableError(erEnd.value) => erInvoked = erCall.retries
             /\ erSleeps = DelaysUpTo(erInvoked - 1))
  /\ (erCall.pc \in {"fn", "sleep"}) ~> (erCall.pc = "done")

\* a call with retries = 3 failed three times with retryable errors and
\* rethrew the third after sleeping 100 and 200 ms
C28_Witness ==
  /\ erCall.pc = "done"
  /\ erCall.retries = MaxRetries
  /\ erInvoked = MaxRetries
  /\ erEnd.kind = "throw"
  /\ IsRetryableError(erEnd.value)
  /\ Len(erSleeps) = MaxRetries - 1

(***************************************************************************)
(* Claims about the point balance                                          *)
(***************************************************************************)
\* C29: a user's balance never becomes negative, whatever the interleaving
\* of deductPoints calls and participations of that user: a deduction is
\* applied only to a balance that is at least its amount.
C29_BalanceNeverNegative ==
  /\ ptBalance >= 0
  /\ ptLast.outcome = "deducted" => ptLast.before >= ptLast.amount

(***************************************************************************)
(* Claims about the settlement of an event                                 *)
(***************************************************************************)
\* C30: an event is settled at most once: the reward of a participation is
\* credited at most once, and a settlement action run on an event that is
\* SETTLED changes no balance.
C30_SettledOnce ==
  /\ [](\A u \in Users : evCredited[u] <= 1)
  /\ [][(evStatus = "SETTLED" /\ evSettles' # evSettles)
          => evBalance' = evBalance]_vars

(***************************************************************************)
(* Claims about timeouts of external-store calls                           *)
(***************************************************************************)
\* C20: every external-store call is bounded by an explicit timeout: a call
\* of withCircuitBreaker that has invoked fn returns to its caller, also
\* when the store behind fn never responds (the call then counts as a
\* failure)
C20_WrappedCallReturns ==
  \A c \in Callers : (cbCall[c].pc = "fn") ~> (cbCall[c].pc = "idle")

=============================================================================
